---- MODULE Spec2Model ----
(***************************************************************************)
(* paproxy: a reverse proxy in front of one HTTPS/WebSocket upstream.      *)
(*                                                                         *)
(* The module models                                                       *)
(*   - the traffic store (src/src/state.rs): the DashMap of per-route      *)
(*     (sent, received) pairs and the two atomic aggregates, with the      *)
(*     shard lock that a DashMap entry holds while it is alive;            *)
(*   - the HTTP relay (src/src/router.rs, handler);                        *)
(*   - the WebSocket bridge (src/src/router.rs, handle_socket) and the     *)
(*     frame conversions (src/src/ws.rs).                                  *)
(*                                                                         *)
(* Three specifications share the variables: SpecStore (concurrent calls   *)
(* of update_sent / update_received, one step per memory access),          *)
(* SpecHttp (concurrent relayed requests) and SpecBridge (WebSocket        *)
(* bridges).  Each leaves the variables of the others unchanged.           *)
(***************************************************************************)
EXTENDS Integers, Sequences, FiniteSets, TLC

(***************************************************************************)
(* Bounds of the model.                                                    *)
(***************************************************************************)
\* concurrent callers of the store in SpecStore
NumCallers == 2
\* calls issued in all in SpecStore
MaxCalls == 3
\* largest amount passed to one update_* call in SpecStore
MaxAmount == 2

\* requests relayed in SpecHttp
NumReqs == 2
\* body frames one upstream response delivers in SpecHttp
MaxFrames == 2

\* WebSocket bridges in SpecBridge
NumBridges == 1
\* frames read in all, over both directions of all bridges, in SpecBridge
MaxReads == 3

\* The counters are u64 (state.rs:6-8).  TLC's integers are 32 bits wide, so
\* the modulus of the wrapping additions stands for 2^64; every total the
\* specifications below reach stays far under it.
U64Modulus == 1048576

(***************************************************************************)
(* Text is modelled as a sequence of one-character tokens, so that a path, *)
(* a query and a formatted URI are built and taken apart the way the code  *)
(* does it.                                                                *)
(***************************************************************************)
PathA == <<"/", "a">>
PathASlash == <<"/", "a", "/">>
Routes == {PathA, PathASlash}

VARIABLES
    \* ---- traffic store (state.rs) ----
    url_traffic,    \* DashMap<String,(u64,u64)>: route -> <<sent, received>>
    http_traffic,   \* AtomicU64
    ws_traffic,     \* AtomicU64
    \* ---- SpecStore: the callers of update_sent / update_received ----
    shardLock,      \* route -> 0 (free) or the caller holding the write lock of its shard
    cpc,            \* caller -> position inside update_sent / update_received
    carg,           \* caller -> [op, url, count] of the call in progress
    ctmp,           \* caller -> the value read by `entry.k += count`
    ncalls,         \* calls issued so far
    issued,         \* ghost: route -> <<sum of sent amounts, sum of received amounts>> issued
    \* ---- configuration (cfg.rs) ----
    cfgHost,        \* Cfg::host, the upstream authority
    \* ---- SpecHttp: the relayed requests (router.rs, handler) ----
    layout,         \* the router's configuration: Cfg.pagrid and Args.transparent
    req,            \* request -> its position, locals and what it has exchanged
    \* ---- SpecBridge: the WebSocket bridges (router.rs, handle_socket) ----
    bridge,         \* bridge -> handler_impl's position, its two directions, the sockets
    nreads,         \* frames read so far, over all bridges
    nkeys,          \* keys generate_key has produced so far
    \* ---- SpecLife: start, serving and exit of the process (main.rs, shutdown.rs, app.rs) ----
    shutdown,       \* State.shutdown
    sigReceived,    \* a termination or interrupt signal has been delivered to the process
    server,         \* the task running axum::serve: "accepting", "draining", "stopped", "cancelled"
    app,            \* App::run / main_impl: "wait", "check", "returning", "exited"
    httpConns,      \* HTTP connections the server has accepted and not finished
    wsConns,        \* bridge tasks that are running
    naccepts,       \* connections accepted so far
    cut,            \* connections and bridges the exit of the process has cut short
    nshutdowns,     \* calls of State::shutdown so far
    late,           \* connections accepted after a signal arrived or the flag was set
    \* ---- SpecTls: the TLS handshakes of the outbound clients (tls.rs) ----
    tls,            \* the handshake in progress: position, what the server presented
    nhandshakes,    \* handshakes begun so far
    \* ---- SpecConv: one relay loop on frames of every kind (ws.rs) ----
    conv,           \* the loop: direction, position, frame held, frames read and written
    \* ---- SpecSnap: the dashboard's reading of the store (app.rs, App::ui) ----
    snap            \* the frame being drawn: position, shard held, pairs and total read

storeVars == <<url_traffic, http_traffic, ws_traffic>>
callerVars == <<shardLock, cpc, carg, ctmp, ncalls, issued>>
httpVars == <<cfgHost, layout, req>>
bridgeVars == <<bridge, nreads, nkeys>>
lifeVars == <<shutdown, sigReceived, server, app, httpConns, wsConns, naccepts, cut, nshutdowns, late>>
vars == <<url_traffic, http_traffic, ws_traffic,
          shardLock, cpc, carg, ctmp, ncalls, issued, cfgHost, layout, req,
          bridge, nreads, nkeys,
          shutdown, sigReceived, server, app, httpConns, wsConns, naccepts, cut, nshutdowns, late,
          tls, nhandshakes, conv, snap>>
tlsVars == <<tls, nhandshakes>>
convVars == <<conv>>
snapVars == <<snap>>

\* App before it has drawn a frame
IdleSnap ==
    [pc |-> "idle", todo |-> {}, held |-> <<>>, cur |-> <<0, 0>>,
     pairs |-> <<>>, total |-> 0, draws |-> 0]

\* the default layout with local static serving
DefaultLayout == [pagrid |-> FALSE, transparent |-> FALSE]

\* the process once main_impl has spawned the serving task and App::run has
\* entered its loop: State::new has set shutdown to false, nothing is accepted
LifeNew ==
    /\ shutdown = FALSE
    /\ sigReceived = FALSE
    /\ server = "accepting"
    /\ app = "wait"
    /\ httpConns = 0
    /\ wsConns = 0
    /\ naccepts = 0
    /\ cut = 0
    /\ nshutdowns = 0
    /\ late = 0
    /\ tls = [pc |-> "idle"]
    /\ nhandshakes = 0
    /\ conv = [dir |-> "none", pc |-> "none", msg |-> <<>>, rlog |-> <<>>, wlog |-> <<>>]
    /\ snap = IdleSnap

Callers == 1..NumCallers
Reqs == 1..NumReqs
Bridges == 1..NumBridges
Amounts == 1..MaxAmount

RECURSIVE SumOver(_, _)
\* sum of f[x] over the finite set S
SumOver(f, S) ==
    IF S = {} THEN 0
    ELSE LET x == CHOOSE y \in S : TRUE IN f[x] + SumOver(f, S \ {x})

\* u64 addition as `+=` (release build) and AtomicU64::fetch_add perform it
WrappingAdd(a, n) == (a + n) % U64Modulus

(***************************************************************************)
(* Text helpers                                                            *)
(***************************************************************************)
\* Option<T>: None is the empty sequence, Some(x) the sequence holding x
None == <<>>
Some(x) == <<x>>
IsSome(o) == o # <<>>
Unwrap(o) == o[1]

\* the position of the first token of s that is in set cs, or Len(s) + 1
RECURSIVE FirstIn(_, _, _)
FirstIn(s, cs, i) ==
    IF i > Len(s) THEN Len(s) + 1
    ELSE IF s[i] \in cs THEN i
    ELSE FirstIn(s, cs, i + 1)

Prefix(s, n) == SubSeq(s, 1, n)
Suffix(s, n) == SubSeq(s, n, Len(s))
\* the upstream hosts a configuration file may name
GoodHost == <<"u">>
BadHost == <<"u", " ">>
Hosts == {GoodHost, BadHost}

(***************************************************************************)
(* http::Uri, HeaderMap and the integer parser, as the relay uses them     *)
(***************************************************************************)
\* the longest text Uri::try_from accepts (the http crate's limit, scaled to
\* the token texts of the model)
MaxUriLen == 15

\* tokens a URI may not contain
UriForbidden == {" "}

\* req.uri().path()
UriPath(u) == u.path

\* req.uri().path_and_query().map(|v| v.as_str()): an inbound request target
\* always has a path-and-query part, "path" or "path?query"
PathAndQueryStr(u) ==
    Some(IF u.query = None THEN u.path ELSE u.path \o <<"?">> \o Unwrap(u.query))

\* Uri::try_from(text): the parsed URI, or None when the text is no URI
UriTryFrom(text) ==
    LET colon == FirstIn(text, {":"}, 1)
        authStart == colon + 3
        authEnd == FirstIn(text, {"/", "?"}, authStart)
        queryMark == FirstIn(text, {"?"}, authEnd)
    IN  IF \/ Len(text) > MaxUriLen
           \/ \E i \in 1..Len(text) : text[i] \in UriForbidden
           \/ colon = 1
           \/ colon + 2 > Len(text)
           \/ text[colon + 1] # "/"
           \/ text[colon + 2] # "/"
           \/ authEnd = authStart
        THEN None
        ELSE Some([scheme |-> Prefix(text, colon - 1),
                   authority |-> SubSeq(text, authStart, authEnd - 1),
                   path |-> SubSeq(text, authEnd, queryMark - 1),
                   query |-> IF queryMark > Len(text) THEN None
                             ELSE Some(Suffix(text, queryMark + 1))])

\* tokens a header value may not contain
HeaderValueForbidden == {"\n"}

\* text.parse::<HeaderValue>(): the value, or None when it is refused
HeaderValueParse(text) ==
    IF \E i \in 1..Len(text) : text[i] \in HeaderValueForbidden THEN None ELSE Some(text)

\* HeaderMap::contains_key
ContainsKey(h, name) == name \in DOMAIN h

\* HeaderMap::insert: the name keeps one value, whatever it held before
HeaderInsert(h, name, value) ==
    [k \in DOMAIN h \cup {name} |-> IF k = name THEN <<value>> ELSE h[k]]

\* HeaderMap::get: the first value under the name
HeaderGet(h, name) == IF name \in DOMAIN h THEN Some(h[name][1]) ELSE None

DigitChars == <<"0", "1", "2", "3", "4", "5", "6", "7", "8", "9">>
DigitSet == {DigitChars[i] : i \in 1..Len(DigitChars)}
DigitVal(c) == (CHOOSE i \in 1..Len(DigitChars) : DigitChars[i] = c) - 1

RECURSIVE DigitsValue(_)
DigitsValue(ds) ==
    IF ds = <<>> THEN 0
    ELSE DigitsValue(Prefix(ds, Len(ds) - 1)) * 10 + DigitVal(ds[Len(ds)])

\* u64::from_str_radix(text, 10).ok(): an optional "+", then digits only
ParseU64(text) ==
    LET ds == IF text # <<>> /\ text[1] = "+" THEN Tail(text) ELSE text
    IN  IF ds = <<>> \/ \E i \in 1..Len(ds) : ds[i] \notin DigitSet THEN None
        ELSE IF DigitsValue(ds) >= U64Modulus THEN None
        ELSE Some(DigitsValue(ds))

\* the decimal text of a number, as a client writes a Content-Length
RECURSIVE ToDigits(_)
ToDigits(n) ==
    IF n < 10 THEN <<DigitChars[n + 1]>>
    ELSE ToDigits(n \div 10) \o <<DigitChars[(n % 10) + 1]>>

(***************************************************************************)
(* State::new                                                              *)
(***************************************************************************)
StateNew ==
    /\ url_traffic = <<>>
    /\ http_traffic = 0
    /\ ws_traffic = 0

\* `.entry(url).or_insert((0, 0))`: the map with the entry present
OrInsert(map, url) ==
    IF url \in DOMAIN map THEN map
    ELSE [k \in DOMAIN map \cup {url} |-> IF k = url THEN <<0, 0>> ELSE map[k]]

\* the field of the pair an operation adds to: update_sent .0, update_received .1
FieldOf(op) == IF op = "sent" THEN 1 ELSE 2

\* the map after `entry.k += count` on an entry that is present
AddToField(map, url, k, count) ==
    [map EXCEPT ![url][k] = WrappingAdd(@, count)]

(***************************************************************************)
(* SpecStore: update_sent / update_received, one step per memory access.   *)
(* `entry()` takes the write lock of the key's shard and the returned      *)
(* RefMut keeps it until it is dropped at the end of the function.  Which  *)
(* keys share a shard depends on their hashes; the model gives every key   *)
(* its own lock, the finest sharding, which allows every interleaving any  *)
(* coarser sharding allows.                                                *)
(***************************************************************************)
ShardLockFree_Unlocked(url) == TRUE

\* the write lock of the key's shard can be taken
ShardLockFree(url) == shardLock[url] = 0

NoArg == [op |-> "none", url |-> <<>>, count |-> 0]

\* no request has reached a handler yet
IdleReq ==
    [pc |-> "idle", inbound |-> None, outbound |-> None, path |-> None,
     attempts |-> 0, upstream |-> None, response |-> None,
     upFrames |-> <<>>, outFrames |-> <<>>]

\* one direction of a bridge before its loop runs
IdleDirection ==
    [pc |-> "none", msg |-> None, err |-> "none",
     nread |-> 0, nfwd |-> 0, counted |-> 0, payload |-> 0,
     rlog |-> <<>>, wlog |-> <<>>]

\* no socket has been accepted yet
IdleBridge ==
    [pc |-> "idle", inbound |-> None, outbound |-> None,
     c |-> IdleDirection, u |-> IdleDirection,
     clientSock |-> "open", upSock |-> "none"]

InitStore ==
    /\ StateNew
    /\ shardLock = [r \in Routes |-> 0]
    /\ cpc = [t \in Callers |-> "idle"]
    /\ carg = [t \in Callers |-> NoArg]
    /\ ctmp = [t \in Callers |-> 0]
    /\ ncalls = 0
    /\ issued = [r \in Routes |-> <<0, 0>>]
    /\ cfgHost = GoodHost
    /\ layout = DefaultLayout
    /\ req = [r \in Reqs |-> IdleReq]
    /\ bridge = [b \in Bridges |-> IdleBridge]
    /\ nreads = 0
    /\ nkeys = 0
    /\ LifeNew

\* a task calls update_sent(url, count) or update_received(url, count)
Call(t) ==
    /\ cpc[t] = "idle"
    /\ ncalls < MaxCalls
    /\ \E op \in {"sent", "received"}, url \in Routes, count \in Amounts :
          /\ carg' = [carg EXCEPT ![t] = [op |-> op, url |-> url, count |-> count]]
          /\ issued' = [issued EXCEPT ![url][FieldOf(op)] = @ + count]
    /\ ncalls' = ncalls + 1
    /\ cpc' = [cpc EXCEPT ![t] = "entry"]
    /\ UNCHANGED <<storeVars, shardLock, ctmp, httpVars, bridgeVars, lifeVars, tlsVars, convVars, snapVars>>

\* self.url_traffic.entry(url.to_string()).or_insert((0, 0))
Entry(t) ==
    /\ cpc[t] = "entry"
    /\ ShardLockFree(carg[t].url)
    /\ shardLock' = [shardLock EXCEPT ![carg[t].url] = t]
    /\ url_traffic' = OrInsert(url_traffic, carg[t].url)
    /\ cpc' = [cpc EXCEPT ![t] = "load"]
    /\ UNCHANGED <<http_traffic, ws_traffic, carg, ctmp, ncalls, issued, httpVars, bridgeVars, lifeVars, tlsVars, convVars, snapVars>>

\* entry.k += count, the read
LoadField(t) ==
    /\ cpc[t] = "load"
    /\ ctmp' = [ctmp EXCEPT ![t] = url_traffic[carg[t].url][FieldOf(carg[t].op)]]
    /\ cpc' = [cpc EXCEPT ![t] = "store"]
    /\ UNCHANGED <<storeVars, shardLock, carg, ncalls, issued, httpVars, bridgeVars, lifeVars, tlsVars, convVars, snapVars>>

\* entry.k += count, the write
StoreField(t) ==
    /\ cpc[t] = "store"
    /\ url_traffic' = [url_traffic EXCEPT ![carg[t].url][FieldOf(carg[t].op)] =
                          WrappingAdd(ctmp[t], carg[t].count)]
    /\ ctmp' = [ctmp EXCEPT ![t] = 0]
    /\ cpc' = [cpc EXCEPT ![t] = "fetch_add"]
    /\ UNCHANGED <<http_traffic, ws_traffic, shardLock, carg, ncalls, issued, httpVars, bridgeVars, lifeVars, tlsVars, convVars, snapVars>>

\* self.http_traffic.fetch_add(count, AcqRel)
FetchAdd(t) ==
    /\ cpc[t] = "fetch_add"
    /\ http_traffic' = WrappingAdd(http_traffic, carg[t].count)
    /\ cpc' = [cpc EXCEPT ![t] = "drop"]
    /\ UNCHANGED <<url_traffic, ws_traffic, shardLock, carg, ctmp, ncalls, issued, httpVars, bridgeVars, lifeVars, tlsVars, convVars, snapVars>>

\* the end of the function: `entry` is dropped and the shard lock released
DropEntry(t) ==
    /\ cpc[t] = "drop"
    /\ shardLock' = [shardLock EXCEPT ![carg[t].url] = 0]
    /\ carg' = [carg EXCEPT ![t] = NoArg]
    /\ cpc' = [cpc EXCEPT ![t] = "idle"]
    /\ UNCHANGED <<storeVars, ctmp, ncalls, issued, httpVars, bridgeVars, lifeVars, tlsVars, convVars, snapVars>>

NextStore ==
    \/ \E t \in Callers : Call(t)
    \/ \E t \in Callers : Entry(t)
    \/ \E t \in Callers : LoadField(t)
    \/ \E t \in Callers : StoreField(t)
    \/ \E t \in Callers : FetchAdd(t)
    \/ \E t \in Callers : DropEntry(t)

SpecStore == InitStore /\ [][NextStore]_vars

(***************************************************************************)
(* Claims about the traffic store                                          *)
(***************************************************************************)
Quiescent == \A t \in Callers : cpc[t] = "idle"

\* the pair a reader finds for a route (no entry reads as nothing recorded)
PairOf(map, r) == IF r \in DOMAIN map THEN map[r] ELSE <<0, 0>>

IssuedTotal == SumOver([r \in Routes |-> issued[r][1] + issued[r][2]], Routes)

\* C1: once every concurrent update_sent / update_received call has
\* completed, each route's sent and received counters equal the sums of the
\* amounts issued for them, and http_traffic equals the sum of all amounts.
C1_NoLostUpdate ==
    Quiescent =>
        /\ \A r \in Routes : PairOf(url_traffic, r) = issued[r]
        /\ http_traffic = IssuedTotal

\* two callers have finished all their calls and one counter took several
C1_Witness ==
    /\ Quiescent
    /\ ncalls = MaxCalls
    /\ \E r \in Routes : issued[r][1] >= 2 /\ PairOf(url_traffic, r)[1] = issued[r][1]
    /\ http_traffic = IssuedTotal /\ http_traffic >= MaxCalls

(***************************************************************************)
(* SpecHttp: the HTTP relay (router.rs, handler).                          *)
(*                                                                         *)
(* handler_impl runs without suspending from its first line to             *)
(* `client.request(req).await`, so that part is one step (HandlerBegin).   *)
(* The await is the second step (Dispatch), and every frame the caller     *)
(* polls from the returned body is one more (PollFrame).                   *)
(***************************************************************************)
Https == <<"h", "t", "t", "p", "s", ":", "/", "/">>
LongPath == <<"/", "a", "a", "a", "a", "a", "a">>
AllPaths == Routes \cup {LongPath}

\* what a client may send
Methods == {"GET", "POST"}
Targets ==
    {[path |-> PathA, query |-> None],
     [path |-> PathA, query |-> Some(<<"x">>)],
     [path |-> PathASlash, query |-> None],
     [path |-> LongPath, query |-> None]}
HostInputs == {None, Some(<<"p">>)}
ContentLengthInputs ==
    {[kind |-> "absent", n |-> 0], [kind |-> "garbage", n |-> 0],
     [kind |-> "number", n |-> 12]}

ContentLengthText(cl) == IF cl.kind = "number" THEN ToDigits(cl.n) ELSE <<"x">>

\* the inbound header map: an Accept header with two values, and Host and
\* Content-Length when the client sent them
InboundHeaders(host, cl) ==
    [name \in {"accept"} \cup (IF host = None THEN {} ELSE {"host"})
                         \cup (IF cl.kind = "absent" THEN {} ELSE {"content-length"}) |->
        CASE name = "accept" -> <<<<"j">>, <<"k">>>>
          [] name = "host" -> <<Unwrap(host)>>
          [] name = "content-length" -> <<ContentLengthText(cl)>>]

\* what the upstream may answer
UpstreamResponses ==
    {[status |-> 200, headers |-> [server |-> <<<<"s">>>>], version |-> "HTTP/1.1"],
     [status |-> 500, headers |-> [via |-> <<<<"v">>>>], version |-> "HTTP/2"]}
BodyFrames ==
    {[kind |-> "data", data |-> <<"d", "e">>], [kind |-> "trailers", data |-> <<>>]}

\* state.update_sent(url, count), as one step
UpdateSent(url, count) ==
    /\ url_traffic' = AddToField(OrInsert(url_traffic, url), url, 1, count)
    /\ http_traffic' = WrappingAdd(http_traffic, count)

\* state.update_received(url, count), as one step
UpdateReceived(url, count) ==
    /\ url_traffic' = AddToField(OrInsert(url_traffic, url), url, 2, count)
    /\ http_traffic' = WrappingAdd(http_traffic, count)

RouteKey_WithQuery(u) == Unwrap(PathAndQueryStr(u))

\* let path = req.uri().path().to_owned(): the key of the request's route
RouteKey(u) == UriPath(u)

PathQuery_PathOnly(u) == UriPath(u)

\* let path_query = req.uri().path_and_query().map(|v| v.as_str()).unwrap_or(&path)
PathQuery(u) ==
    IF IsSome(PathAndQueryStr(u)) THEN Unwrap(PathAndQueryStr(u)) ELSE UriPath(u)

\* format!("https://{}{}", cfg.host, path_query)
FormatUri(host, path_query) == Https \o host \o path_query

\* if headers.contains_key(HOST) { headers.insert(HOST, cfg.host.parse()?) }
RewriteHost(headers, hostValue) ==
    IF ContainsKey(headers, "host") THEN HeaderInsert(headers, "host", hostValue)
    ELSE headers

\* headers.get(CONTENT_LENGTH).and_then(|hv| hv.to_str().ok())
\*        .and_then(|str| u64::from_str_radix(str, 10).ok())
ContentLength(headers) ==
    IF HeaderGet(headers, "content-length") = None THEN None
    ELSE ParseU64(Unwrap(HeaderGet(headers, "content-length")))

\* Err(StatusCode::INTERNAL_SERVER_ERROR), as the caller receives it
ErrorResponse == [status |-> 500, headers |-> <<>>, version |-> "HTTP/1.1"]

\* Response::new(body): 200, no headers, HTTP/1.1
DefaultResponse == [status |-> 200, headers |-> <<>>, version |-> "HTTP/1.1"]

\* the response built from the upstream's parts
IntoResponse(parts) ==
    [DefaultResponse EXCEPT !.headers = parts.headers,
                            !.status = parts.status,
                            !.version = parts.version]

\* Err(e) => Err(StatusCode::INTERNAL_SERVER_ERROR): handler_impl has returned,
\* its locals are gone
OnHandlerError(rq) ==
    [rq EXCEPT !.pc = "failed", !.inbound = None, !.outbound = None,
               !.path = None, !.response = Some(ErrorResponse)]

OnDispatchError_Retry(rq) ==
    IF rq.attempts = 0 THEN [rq EXCEPT !.attempts = @ + 1]
    ELSE OnHandlerError([rq EXCEPT !.attempts = @ + 1])

\* client.request(req).await? fails: the one attempt is over and the error
\* leaves handler_impl
OnDispatchError(rq) == OnHandlerError([rq EXCEPT !.attempts = @ + 1])

InspectFrame_Twice(url, frame) ==
    /\ IF frame.kind = "data"
       THEN /\ url_traffic' = AddToField(OrInsert(url_traffic, url), url, 2, 2 * Len(frame.data))
            /\ http_traffic' = WrappingAdd(http_traffic, 2 * Len(frame.data))
       ELSE UNCHANGED <<url_traffic, http_traffic>>

\* the closure of map_frame: a data frame adds its length to the route's
\* received counter
InspectFrame(url, frame) ==
    /\ IF frame.kind = "data"
       THEN UpdateReceived(url, Len(frame.data))
       ELSE UNCHANGED <<url_traffic, http_traffic>>

\* the frame map_frame's closure returns
MappedFrame(frame) == frame

InitHttp ==
    /\ StateNew
    /\ shardLock = [r \in Routes |-> 0]
    /\ cpc = [t \in Callers |-> "idle"]
    /\ carg = [t \in Callers |-> NoArg]
    /\ ctmp = [t \in Callers |-> 0]
    /\ ncalls = 0
    /\ issued = [r \in AllPaths |-> <<0, 0>>]
    /\ cfgHost \in Hosts
    /\ layout = DefaultLayout
    /\ req = [r \in Reqs |-> IdleReq]
    /\ bridge = [b \in Bridges |-> IdleBridge]
    /\ nreads = 0
    /\ nkeys = 0
    /\ LifeNew

\* handler_impl, lines 30-53, on one inbound request: target URI, Host
\* rewrite, Content-Length accounting
HandlerImpl(r, method, target, host, cl) ==
    LET inbound == [method |-> method, uri |-> target,
                    headers |-> InboundHeaders(host, cl), body |-> "body"]
        path == RouteKey(inbound.uri)
        uri == UriTryFrom(FormatUri(cfgHost, PathQuery(inbound.uri)))
        hostValue == HeaderValueParse(cfgHost)
        hostFails == ContainsKey(inbound.headers, "host") /\ hostValue = None
    IN  IF uri = None \/ hostFails
        THEN /\ req' = [req EXCEPT ![r] = OnHandlerError(@)]
             /\ UNCHANGED <<url_traffic, http_traffic, issued>>
        ELSE LET headers == RewriteHost(inbound.headers, Unwrap(hostValue))
                 content_length == ContentLength(headers)
             IN  /\ req' = [req EXCEPT ![r] =
                              [@ EXCEPT !.pc = "dispatch",
                                        !.inbound = Some(inbound),
                                        !.outbound = Some([method |-> inbound.method,
                                                           uri |-> Unwrap(uri),
                                                           headers |-> headers,
                                                           body |-> inbound.body]),
                                        !.path = Some(path)]]
                 /\ IF IsSome(content_length)
                    THEN UpdateSent(path, Unwrap(content_length))
                    ELSE UNCHANGED <<url_traffic, http_traffic>>
                 /\ issued' = [issued EXCEPT ![target.path][1] =
                                  @ + (IF cl.kind = "number" THEN cl.n ELSE 0)]

\* a request reaches the handler
HandlerBegin(r) ==
    /\ req[r].pc = "idle"
    \* requests are numbered in the order their handlers start
    /\ IF r = 1 THEN TRUE ELSE req[r - 1].pc # "idle"
    /\ \E method \in Methods, target \in Targets, host \in HostInputs :
       \* a GET carries no body and so no Content-Length
       \E cl \in {c \in ContentLengthInputs : method = "GET" => c.kind = "absent"} :
          HandlerImpl(r, method, target, host, cl)
    /\ UNCHANGED <<ws_traffic, shardLock, cpc, carg, ctmp, ncalls, cfgHost, layout, bridgeVars, lifeVars, tlsVars, convVars, snapVars>>

\* client.request(req).await?, lines 55-71: one attempt, then either the
\* error that ends handler_impl or the response handed to the caller
Dispatch(r) ==
    /\ req[r].pc = "dispatch"
    /\ \/ req' = [req EXCEPT ![r] = OnDispatchError(@)]
       \/ \E up \in UpstreamResponses :
             req' = [req EXCEPT ![r] =
                       [@ EXCEPT !.pc = "streaming", !.attempts = @ + 1,
                                 !.inbound = None, !.outbound = None,
                                 !.upstream = Some(up),
                                 !.response = Some(IntoResponse(up))]]
    /\ UNCHANGED <<storeVars, callerVars, cfgHost, layout, bridgeVars, lifeVars, tlsVars, convVars, snapVars>>

\* the caller polls the response body and the upstream has a frame (trailers
\* come last): the closure of map_frame sees it and it is handed on.  The
\* head of the response has been written to the caller by now.
PollFrame(r) ==
    /\ req[r].pc = "streaming"
    /\ Len(req[r].upFrames) < MaxFrames
    /\ \A i \in 1..Len(req[r].upFrames) : req[r].upFrames[i].kind = "data"
    /\ \E frame \in BodyFrames :
          /\ InspectFrame(Unwrap(req[r].path), frame)
          /\ req' = [req EXCEPT ![r] =
                       [@ EXCEPT !.upstream = None, !.response = None,
                                 !.upFrames = Append(@, frame),
                                 !.outFrames = Append(@, MappedFrame(frame))]]
          /\ issued' = [issued EXCEPT ![Unwrap(req[r].path)][2] =
                           @ + (IF frame.kind = "data" THEN Len(frame.data) ELSE 0)]
    /\ UNCHANGED <<ws_traffic, shardLock, cpc, carg, ctmp, ncalls, cfgHost, layout, bridgeVars, lifeVars, tlsVars, convVars, snapVars>>

\* the upstream body ends: the closure, and the path it owns, are dropped
EndOfBody(r) ==
    /\ req[r].pc = "streaming"
    /\ req' = [req EXCEPT ![r] = [IdleReq EXCEPT !.pc = "complete", !.attempts = 1]]
    /\ UNCHANGED <<storeVars, callerVars, cfgHost, layout, bridgeVars, lifeVars, tlsVars, convVars, snapVars>>

\* the upstream body fails, or the caller goes away and drops the response
AbortBody(r) ==
    /\ req[r].pc = "streaming"
    /\ req' = [req EXCEPT ![r] = [IdleReq EXCEPT !.pc = "aborted", !.attempts = 1]]
    /\ UNCHANGED <<storeVars, callerVars, cfgHost, layout, bridgeVars, lifeVars, tlsVars, convVars, snapVars>>

NextHttp ==
    \/ \E r \in Reqs : HandlerBegin(r)
    \/ \E r \in Reqs : Dispatch(r)
    \/ \E r \in Reqs : PollFrame(r)
    \/ \E r \in Reqs : EndOfBody(r)
    \/ \E r \in Reqs : AbortBody(r)

SpecHttp == InitHttp /\ [][NextHttp]_vars

(***************************************************************************)
(* Claims about the HTTP relay                                             *)
(***************************************************************************)
\* C5: a transport failure at dispatch ends the request after exactly one
\* attempt with a bare 500 (no upstream status, headers or body frame) and
\* the failing step adds nothing to the store; a request that failed takes
\* no further step; a URI-construction or header-rewrite failure is a bare
\* 500 as well.
C5_DispatchFailureIs500 ==
    /\ [](\A r \in Reqs :
            req[r].pc = "failed" =>
               /\ req[r].response = Some(ErrorResponse)
               /\ req[r].attempts <= 1
               /\ req[r].upstream = None
               /\ req[r].upFrames = <<>> /\ req[r].outFrames = <<>>)
    /\ [][\A r \in Reqs :
            /\ (req[r].pc = "dispatch" /\ req'[r].pc = "failed") =>
                  /\ req'[r].attempts = 1
                  /\ url_traffic' = url_traffic
                  /\ http_traffic' = http_traffic
            /\ (req[r].pc = "idle" /\ req'[r].pc = "failed") => req'[r].attempts = 0
            /\ req[r].pc = "failed" => req'[r] = req[r]]_vars

\* one request failed at dispatch, another before it
C5_Witness ==
    /\ cfgHost = GoodHost
    /\ \E r \in Reqs : req[r].pc = "failed" /\ req[r].attempts = 1
    /\ \E r \in Reqs : req[r].pc = "failed" /\ req[r].attempts = 0

\* C6: every relayed request whose Content-Length parses as n has added n,
\* once and before dispatch, to the sent counter of the route keyed by its
\* path without the query, and to http_traffic; a request without a
\* parsable Content-Length has added nothing to a sent counter.
C6_SentAccounting ==
    /\ \A p \in AllPaths : PairOf(url_traffic, p)[1] = issued[p][1]
    /\ DOMAIN url_traffic \subseteq AllPaths
    /\ http_traffic =
          SumOver([p \in AllPaths |-> issued[p][1] + issued[p][2]], AllPaths)

\* two requests that differ in the query only are waiting for dispatch and
\* both lengths are on the one route
C6_Witness ==
    /\ \A r \in {1, 2} : req[r].pc = "dispatch"
    /\ Unwrap(req[1].inbound).uri = [path |-> PathA, query |-> None]
    /\ Unwrap(req[2].inbound).uri = [path |-> PathA, query |-> Some(<<"x">>)]
    /\ \A r \in {1, 2} : ContainsKey(Unwrap(req[r].inbound).headers, "content-length")
    /\ url_traffic = [p \in {PathA} |-> <<24, 0>>]
    /\ http_traffic = 24

\* C7: every data frame of the upstream body that has passed has added its
\* length once to the received counter of the request's route; the frames
\* handed to the caller are the upstream's, unchanged and in order; the
\* response's status, headers and version are the upstream's.
C7_ReceivedAccounting ==
    /\ \A p \in AllPaths : PairOf(url_traffic, p)[2] = issued[p][2]
    /\ \A r \in Reqs :
          req[r].pc = "streaming" =>
             /\ req[r].outFrames = req[r].upFrames
             /\ IsSome(req[r].response) =>
                   /\ IsSome(req[r].upstream)
                   /\ Unwrap(req[r].response) = Unwrap(req[r].upstream)

\* a body of two data frames has passed on one route
C7_Witness ==
    \E r \in Reqs :
       /\ req[r].pc = "streaming"
       /\ Len(req[r].upFrames) = 2
       /\ \A i \in 1..2 : req[r].upFrames[i].kind = "data"
       /\ PairOf(url_traffic, Unwrap(req[r].path))[2] >= 4

\* a response with a status other than 200 has been handed to the caller
C7_HeadWitness ==
    \E r \in Reqs :
       /\ req[r].pc = "streaming"
       /\ IsSome(req[r].response)
       /\ Unwrap(req[r].response).status = 500

\* C8: the request dispatched upstream has the URI
\* https://{upstreamHost}{path}[?{query}], the method, body and headers of
\* the inbound request, except that a Host header, if the inbound request
\* has one, has the value upstreamHost; no Host header is added.
C8_OutboundRequest ==
    \A r \in Reqs :
       req[r].pc = "dispatch" =>
          LET in == Unwrap(req[r].inbound)
              out == Unwrap(req[r].outbound)
          IN  /\ out.uri = [scheme |-> <<"h", "t", "t", "p", "s">>,
                            authority |-> cfgHost,
                            path |-> in.uri.path,
                            query |-> in.uri.query]
              /\ out.method = in.method
              /\ out.body = in.body
              /\ DOMAIN out.headers = DOMAIN in.headers
              /\ \A name \in DOMAIN in.headers \ {"host"} :
                    out.headers[name] = in.headers[name]
              /\ "host" \in DOMAIN in.headers => out.headers["host"] = <<cfgHost>>

\* a request with a query and a Host header, and one without either, wait
\* for dispatch
C8_Witness ==
    /\ \E r \in Reqs :
          /\ req[r].pc = "dispatch"
          /\ IsSome(Unwrap(req[r].inbound).uri.query)
          /\ ContainsKey(Unwrap(req[r].inbound).headers, "host")
          /\ Unwrap(req[r].inbound).headers["host"] # <<cfgHost>>
    /\ \E r \in Reqs :
          /\ req[r].pc = "dispatch"
          /\ Unwrap(req[r].inbound).uri.query = None
          /\ ~ContainsKey(Unwrap(req[r].outbound).headers, "host")

(***************************************************************************)
(* The frame conversions (ws.rs) and the WebSocket bridge (router.rs,      *)
(* handle_socket).                                                         *)
(*                                                                         *)
(* A message is [kind, data, close]: data is the payload of a text,        *)
(* binary, ping, pong or raw frame, close the optional close frame.        *)
(***************************************************************************)
Msg(kind, data) == [kind |-> kind, data |-> data, close |-> None]
CloseMsg(close) == [kind |-> "close", data |-> <<>>, close |-> close]

\* pub fn axum_to_tungstein(msg: AxumWsMessage) -> TungsteniteWsMessage
axum_to_tungstein(msg) ==
    CASE msg.kind = "text" -> Msg("text", msg.data)
      [] msg.kind = "binary" -> Msg("binary", msg.data)
      [] msg.kind = "ping" -> Msg("ping", msg.data)
      [] msg.kind = "pong" -> Msg("pong", msg.data)
      [] msg.kind = "close" -> CloseMsg(None)

\* a conversion that hands a close frame over with its code and reason
tungstein_to_axum_Verbatim(msg) ==
    IF msg.kind = "frame" THEN None ELSE Some(msg)

\* pub fn tungstein_to_axum(msg: TungsteniteWsMessage) -> Option<AxumWsMessage>
tungstein_to_axum(msg) ==
    CASE msg.kind = "text" -> Some(Msg("text", msg.data))
      [] msg.kind = "binary" -> Some(Msg("binary", msg.data))
      [] msg.kind = "ping" -> Some(Msg("ping", msg.data))
      [] msg.kind = "pong" -> Some(Msg("pong", msg.data))
      [] msg.kind = "close" -> Some(CloseMsg(None))
      [] msg.kind = "frame" -> None

\* the bytes of a raw frame's header
RawHeaderLen == 2

\* msg.len() of a tungstenite message, line 139: the payload of a text,
\* binary, ping or pong message, the reason of a close frame, the whole of
\* a raw frame
UpstreamSize(msg) ==
    CASE msg.kind \in {"text", "binary", "ping", "pong"} -> Len(msg.data)
      [] msg.kind = "close" ->
            IF msg.close = None THEN 0 ELSE Len(Unwrap(msg.close).reason)
      [] msg.kind = "frame" -> RawHeaderLen + Len(msg.data)

\* let msg_size = match msg { Binary(..) => len, Text(..) => len, _ => 0 }
ClientSize(msg) ==
    IF msg.kind \in {"binary", "text"} THEN Len(msg.data) ELSE 0

\* state.update_ws_traffic(count)
UpdateWsTraffic(count) == ws_traffic' = WrappingAdd(ws_traffic, count)

\* what the upstream sends: a data frame and a control frame; tungstenite's
\* reader does not yield raw frames
UpstreamMessages == {Msg("text", <<"a", "b">>), Msg("ping", <<"p">>)}

\* what the client sends: a data frame and a control frame
ClientMessages ==
    {Msg("binary", <<"b">>), CloseMsg(Some([code |-> 1000, reason |-> <<"r">>]))}

\* the payload bytes the bridge is to account for a forwarded message
DataPayload(msg) == IF msg.kind \in {"text", "binary"} THEN Len(msg.data) ELSE 0

(***************************************************************************)
(* The upgrade request for the upstream                                    *)
(***************************************************************************)
Wss == <<"w", "s", "s", ":", "/", "/">>

\* format!("wss://{}{}", cfg.host, path_query)
FormatWsUri(host, path_query) == Wss \o host \o path_query

\* the key the client sent
ClientKey == <<"K", "1">>

\* generate_key(): 16 random bytes, modelled as a key no one has used before
GenerateKey(serial) == <<"G", DigitChars[serial + 1]>>

WsTargets ==
    {[path |-> PathA, query |-> None], [path |-> PathA, query |-> Some(<<"x">>)]}

\* the inbound upgrade request's headers
WsInboundHeaders(host) ==
    [name \in {"accept", "sec-websocket-key"} \cup (IF host = None THEN {} ELSE {"host"}) |->
        CASE name = "accept" -> <<<<"j">>, <<"k">>>>
          [] name = "sec-websocket-key" -> <<ClientKey>>
          [] name = "host" -> <<Unwrap(host)>>]

\* the (name, value) pairs `for (key, value) in req.headers()` goes through
RECURSIVE HeaderEntries(_, _)
HeaderEntries(h, names) ==
    IF names = {} THEN <<>>
    ELSE LET name == CHOOSE x \in names : TRUE
         IN  [i \in 1..Len(h[name]) |-> <<name, h[name][i]>>]
                \o HeaderEntries(h, names \ {name})

\* the loop of lines 103-109 over the entries, into the builder's headers
RECURSIVE CopyHeaders(_, _, _)
CopyHeaders(entries, hostValue, headers) ==
    IF entries = <<>> THEN headers
    ELSE CopyHeaders(Tail(entries), hostValue,
                     IF Head(entries)[1] = "host"
                     THEN HeaderInsert(headers, "host", hostValue)
                     ELSE HeaderInsert(headers, Head(entries)[1], Head(entries)[2]))

\* the header name "Sec-WebSocket-Key" as the map stores it
KeyHeaderName == "sec-websocket-key"

WithFreshKey_Kept(headers, key) == headers

\* request.headers_mut().unwrap().insert("Sec-WebSocket-Key", generate_key().parse()?)
WithFreshKey(headers, key) == HeaderInsert(headers, KeyHeaderName, key)

(***************************************************************************)
(* SpecBridge.  handler_impl builds the upgrade request without            *)
(* suspending (BridgeAccept), awaits the connection (Connect), spawns the  *)
(* upstream->client task (direction u) and runs the client->upstream loop  *)
(* itself (direction c).  Each loop suspends at its read and at its send:  *)
(* URead / USend and CRead / CSend.                                        *)
(*                                                                         *)
(* Ghost fields of a direction: err (the first error it met), nread and    *)
(* nfwd (frames read and frames sent on), counted (what it has added to    *)
(* ws_traffic), payload (text and binary payload it has sent on).          *)
(***************************************************************************)
OnConnectError_Spawned(br) ==
    [br EXCEPT !.pc = "connect_failed", !.inbound = None, !.outbound = None,
               !.u.pc = "read", !.clientSock = "closed"]

\* handler_impl returns an error before the sockets are split: nothing has
\* been spawned, and proxy_socket is dropped with the function's arguments
OnConnectError(br) ==
    [br EXCEPT !.pc = "connect_failed", !.inbound = None, !.outbound = None,
               !.clientSock = "closed"]

\* lines 147-149: the error of a send to the client is logged, and the
\* loop goes on to its next read
UAfterSendError == "read"

\* line 168: the error of a send to the upstream leaves handler_impl
CAfterSendError == "done"

FirstError(err, now) == IF err = "none" THEN now ELSE err

\* lines 141-145: a message without a counterpart is skipped with `continue`,
\* any other goes on to the send
UAfterConversion(converted) == IF converted = None THEN "read" ELSE "send"

SinkSend_Twice(written, msg) == written \o <<msg, msg>>

\* writer.send(msg): the frames the socket has been given, in order
SinkSend(written, msg) == Append(written, msg)

InitBridge ==
    /\ StateNew
    /\ shardLock = [r \in Routes |-> 0]
    /\ cpc = [t \in Callers |-> "idle"]
    /\ carg = [t \in Callers |-> NoArg]
    /\ ctmp = [t \in Callers |-> 0]
    /\ ncalls = 0
    /\ issued = [r \in Routes |-> <<0, 0>>]
    /\ cfgHost \in Hosts
    /\ layout = DefaultLayout
    /\ req = [r \in Reqs |-> IdleReq]
    /\ bridge = [b \in Bridges |-> IdleBridge]
    /\ nreads = 0
    /\ nkeys = 0
    /\ LifeNew

\* handle_socket, lines 89-113: the upgrade request for the upstream
BridgeAccept(b) ==
    /\ bridge[b].pc = "idle"
    \* bridges are numbered in the order their sockets are accepted
    /\ IF b = 1 THEN TRUE ELSE bridge[b - 1].pc # "idle"
    /\ \E target \in WsTargets, host \in HostInputs :
         LET inboundHeaders == WsInboundHeaders(host)
             uri == UriTryFrom(FormatWsUri(cfgHost, PathQuery(target)))
             hostValue == HeaderValueParse(cfgHost)
             hostFails == ContainsKey(inboundHeaders, "host") /\ hostValue = None
         IN  IF uri = None \/ hostFails
             THEN /\ bridge' = [bridge EXCEPT ![b] = OnConnectError(@)]
                  /\ nkeys' = nkeys
             ELSE LET copied == CopyHeaders(HeaderEntries(inboundHeaders, DOMAIN inboundHeaders),
                                            Unwrap(hostValue), <<>>)
                      headers == WithFreshKey(copied, GenerateKey(nkeys))
                  IN  /\ bridge' = [bridge EXCEPT ![b] =
                                      [@ EXCEPT !.pc = "connecting",
                                                !.inbound = Some([uri |-> target,
                                                                  headers |-> inboundHeaders]),
                                                !.outbound = Some([uri |-> Unwrap(uri),
                                                                   headers |-> headers])]]
                      /\ nkeys' = nkeys + 1
    /\ UNCHANGED <<storeVars, callerVars, httpVars, nreads, lifeVars, tlsVars, convVars, snapVars>>

\* connect_async_tls_with_config(..).await?, lines 117-131: the error that
\* ends handler_impl, or the split sockets and the spawned task
Connect(b) ==
    /\ bridge[b].pc = "connecting"
    /\ \/ bridge' = [bridge EXCEPT ![b] = OnConnectError(@)]
       \/ bridge' = [bridge EXCEPT ![b] =
                       [@ EXCEPT !.pc = "relaying", !.inbound = None, !.outbound = None,
                                 !.upSock = "open", !.c.pc = "read", !.u.pc = "read"]]
    /\ UNCHANGED <<storeVars, callerVars, httpVars, nreads, nkeys, lifeVars, tlsVars, convVars, snapVars>>

UpstreamEnded_Abort(br, how) ==
    [br EXCEPT !.u.pc = "done", !.u.err = FirstError(@, how), !.upSock = "gone",
               !.c.pc = "done", !.pc = "returned"]

\* lines 132-137: the upstream's stream ends (None) or yields an error, and
\* the spawned task returns; nothing else is told
UpstreamEnded(br, how) ==
    [br EXCEPT !.u.pc = "done", !.u.err = FirstError(@, how), !.upSock = "gone"]

\* the spawned task: pa_ws_reader.next().await, the accounting, the
\* conversion, for a message out of msgs
UReadFrom(b, msgs) ==
    /\ bridge[b].u.pc = "read"
    /\ bridge[b].upSock = "open"
    /\ nreads < MaxReads
    /\ \E m \in msgs :
          /\ UpdateWsTraffic(UpstreamSize(m))
          /\ bridge' = [bridge EXCEPT ![b].u =
                          [@ EXCEPT !.nread = @ + 1,
                                    !.counted = @ + UpstreamSize(m),
                                    !.rlog = Append(@, m),
                                    !.msg = tungstein_to_axum(m),
                                    !.pc = UAfterConversion(tungstein_to_axum(m))]]
    /\ nreads' = nreads + 1
    /\ UNCHANGED <<url_traffic, http_traffic, callerVars, httpVars, nkeys, lifeVars, tlsVars, convVars, snapVars>>

\* the spawned task reads what the upstream sent, or finds its stream ended
URead(b) ==
    \/ UReadFrom(b, UpstreamMessages)
    \/ /\ bridge[b].u.pc = "read"
       /\ \E how \in {"read", "none"} :
             bridge' = [bridge EXCEPT ![b] = UpstreamEnded(@, how)]
       /\ UNCHANGED <<storeVars, callerVars, httpVars, nreads, nkeys, lifeVars, tlsVars, convVars, snapVars>>

\* the spawned task: proxy_ws_writer.send(ws_msg).await
USend(b) ==
    /\ bridge[b].u.pc = "send"
    /\ \/ /\ bridge[b].clientSock = "open"
          /\ bridge' = [bridge EXCEPT ![b].u =
                          [@ EXCEPT !.nfwd = @ + 1,
                                    !.wlog = SinkSend(@, Unwrap(bridge[b].u.msg)),
                                    !.payload = @ + DataPayload(Unwrap(bridge[b].u.msg)),
                                    !.msg = None, !.pc = "read"]]
       \/ bridge' = [bridge EXCEPT ![b].u.msg = None,
                                   ![b].u.err = FirstError(@, "send"),
                                   ![b].u.pc = UAfterSendError,
                                   ![b].clientSock = "gone"]
    /\ UNCHANGED <<storeVars, callerVars, httpVars, nreads, nkeys, lifeVars, tlsVars, convVars, snapVars>>

\* handler_impl's loop: proxy_ws_reader.next().await, the accounting, the conversion
CRead(b) ==
    /\ bridge[b].c.pc = "read"
    /\ \/ /\ bridge[b].clientSock = "open"
          /\ nreads < MaxReads
          /\ \E m \in ClientMessages :
                /\ UpdateWsTraffic(ClientSize(m))
                /\ bridge' = [bridge EXCEPT ![b].c =
                                [@ EXCEPT !.nread = @ + 1,
                                          !.counted = @ + ClientSize(m),
                                          !.rlog = Append(@, m),
                                          !.msg = Some(axum_to_tungstein(m)),
                                          !.pc = "send"]]
          /\ nreads' = nreads + 1
       \/ /\ \E how \in {"read", "none"} :
                bridge' = [bridge EXCEPT ![b].c.pc = "done",
                                         ![b].c.err = FirstError(@, how),
                                         ![b].clientSock = "gone",
                                         ![b].pc = "returned"]
          /\ UNCHANGED <<ws_traffic, nreads>>
    /\ UNCHANGED <<url_traffic, http_traffic, callerVars, httpVars, nkeys, lifeVars, tlsVars, convVars, snapVars>>

\* handler_impl's loop: pa_ws_writer.send(axum_to_tungstein(msg)).await?
CSend(b) ==
    /\ bridge[b].c.pc = "send"
    /\ \/ /\ bridge[b].upSock = "open"
          /\ bridge' = [bridge EXCEPT ![b].c =
                          [@ EXCEPT !.nfwd = @ + 1,
                                    !.wlog = SinkSend(@, Unwrap(bridge[b].c.msg)),
                                    !.payload = @ + DataPayload(Unwrap(bridge[b].c.msg)),
                                    !.msg = None, !.pc = "read"]]
       \/ bridge' = [bridge EXCEPT ![b].c.msg = None,
                                   ![b].c.err = FirstError(@, "send"),
                                   ![b].c.pc = CAfterSendError,
                                   ![b].upSock = "gone",
                                   ![b].pc = "returned"]
    /\ UNCHANGED <<storeVars, callerVars, httpVars, nreads, nkeys, lifeVars, tlsVars, convVars, snapVars>>

NextBridge ==
    \/ \E b \in Bridges : BridgeAccept(b)
    \/ \E b \in Bridges : Connect(b)
    \/ \E b \in Bridges : URead(b)
    \/ \E b \in Bridges : USend(b)
    \/ \E b \in Bridges : CRead(b)
    \/ \E b \in Bridges : CSend(b)

SpecBridge == InitBridge /\ [][NextBridge]_vars

(***************************************************************************)
(* Claims about the bridge.                                                *)
(***************************************************************************)
ForwardedPayload == SumOver([b \in Bridges |-> bridge[b].c.payload + bridge[b].u.payload], Bridges)

\* C2: whenever no direction of any bridge holds a frame it has read and
\* not yet sent, ws_traffic is the sum of the payload lengths of the text
\* and binary frames the bridges have forwarded: control frames, dropped
\* frames and frames whose send failed have added nothing.
C2_OnlyForwardedDataCounted ==
    (\A b \in Bridges : bridge[b].c.pc # "send" /\ bridge[b].u.pc # "send")
        => ws_traffic = ForwardedPayload

\* C3: once the client->upstream direction has met a read error on the
\* inbound socket, neither direction of that bridge reads or forwards
\* another frame.
C3_InboundReadErrorEndsBridge ==
    [][\A b \in Bridges :
          bridge[b].c.err = "read"
            => /\ bridge'[b].u.nread = bridge[b].u.nread
               /\ bridge'[b].u.nfwd = bridge[b].u.nfwd
               /\ bridge'[b].c.nread = bridge[b].c.nread
               /\ bridge'[b].c.nfwd = bridge[b].c.nfwd]_vars

\* C4: once a direction has met a read error or a send error, it reads no
\* further frame, forwards no further frame and adds nothing more to
\* ws_traffic.
C4_ErrorEndsDirection ==
    [][\A b \in Bridges :
          /\ bridge[b].c.err # "none"
               => /\ bridge'[b].c.nread = bridge[b].c.nread
                  /\ bridge'[b].c.nfwd = bridge[b].c.nfwd
                  /\ bridge'[b].c.counted = bridge[b].c.counted
          /\ bridge[b].u.err # "none"
               => /\ bridge'[b].u.nread = bridge[b].u.nread
                  /\ bridge'[b].u.nfwd = bridge[b].u.nfwd
                  /\ bridge'[b].u.counted = bridge[b].u.counted]_vars

\* C9: the upgrade request about to be sent to the upstream carries exactly
\* one Sec-WebSocket-Key, a generated one, which is not the key of the
\* inbound handshake.
C9_FreshKey ==
    \A b \in Bridges :
        bridge[b].pc = "connecting"
          => LET inboundHeaders == Unwrap(bridge[b].inbound).headers
                 headers == Unwrap(bridge[b].outbound).headers
             IN  /\ ContainsKey(headers, KeyHeaderName)
                 /\ Len(headers[KeyHeaderName]) = 1
                 /\ \E serial \in 0..(nkeys - 1) :
                        headers[KeyHeaderName][1] = GenerateKey(serial)
                 /\ \A i \in 1..Len(inboundHeaders[KeyHeaderName]) :
                        headers[KeyHeaderName][1] # inboundHeaders[KeyHeaderName][i]

C9_Witness ==
    \E b \in Bridges :
        /\ bridge[b].pc = "connecting"
        /\ HeaderGet(Unwrap(bridge[b].inbound).headers, KeyHeaderName) = Some(ClientKey)
        /\ ContainsKey(Unwrap(bridge[b].outbound).headers, "accept")

C10_UnbuildableWitness ==
    /\ cfgHost = BadHost
    /\ \E b \in Bridges : bridge[b].pc = "connect_failed"

(***************************************************************************)
(* SpecWide: the three update operations with amounts from the whole u64   *)
(* range.  The amount update_sent receives is the request's Content-Length *)
(* as the client wrote it (router.rs lines 47-53), so the largest u64 is   *)
(* an input.  AtomicU64::fetch_add wraps in every build.  `entry.k +=      *)
(* count` wraps when overflow checks are off (release profile) and panics  *)
(* when they are on (debug profile); the sources fix no profile, so an     *)
(* overflowing `+=` takes either outcome: StoreField or OverflowPanic.     *)
(***************************************************************************)
\* u64::MAX
MaxU64 == U64Modulus - 1

WideAmounts == {1, MaxU64}

\* update_sent / update_received with any u64 amount
CallWide(t) ==
    /\ cpc[t] = "idle"
    /\ ncalls < MaxCalls
    /\ \E op \in {"sent", "received"}, url \in Routes, count \in WideAmounts :
          /\ carg' = [carg EXCEPT ![t] = [op |-> op, url |-> url, count |-> count]]
          /\ issued' = [issued EXCEPT ![url][FieldOf(op)] = @ + count]
    /\ ncalls' = ncalls + 1
    /\ cpc' = [cpc EXCEPT ![t] = "entry"]
    /\ UNCHANGED <<storeVars, shardLock, ctmp, httpVars, bridgeVars, lifeVars, tlsVars, convVars, snapVars>>

\* `entry.k += count` with overflow checks on: the task panics, unwinding
\* drops `entry` (the lock is released, the pair is as it was) and
\* fetch_add is not reached
OverflowPanic(t) ==
    /\ cpc[t] = "store"
    /\ ctmp[t] + carg[t].count >= U64Modulus
    /\ shardLock' = [shardLock EXCEPT ![carg[t].url] = 0]
    /\ carg' = [carg EXCEPT ![t] = NoArg]
    /\ ctmp' = [ctmp EXCEPT ![t] = 0]
    /\ cpc' = [cpc EXCEPT ![t] = "idle"]
    /\ UNCHANGED <<storeVars, ncalls, issued, httpVars, bridgeVars, lifeVars, tlsVars, convVars, snapVars>>

\* update_ws_traffic(count) with any u64 amount
WsAddWide ==
    /\ ncalls < MaxCalls
    /\ \E count \in WideAmounts : UpdateWsTraffic(count)
    /\ ncalls' = ncalls + 1
    /\ UNCHANGED <<url_traffic, http_traffic, shardLock, cpc, carg, ctmp, issued,
                   httpVars, bridgeVars, lifeVars, tlsVars, convVars, snapVars>>

NextWide ==
    \/ \E t \in Callers : CallWide(t)
    \/ \E t \in Callers : Entry(t)
    \/ \E t \in Callers : LoadField(t)
    \/ \E t \in Callers : StoreField(t)
    \/ \E t \in Callers : OverflowPanic(t)
    \/ \E t \in Callers : FetchAdd(t)
    \/ \E t \in Callers : DropEntry(t)
    \/ WsAddWide

SpecWide == InitStore /\ [][NextWide]_vars

\* C11: no step lowers a counter or removes a route: every route present
\* stays present with sent and received at least what they were, and the
\* HTTP and WebSocket aggregates are at least what they were.
C11_CountersMonotone ==
    [][/\ \A r \in DOMAIN url_traffic :
             /\ r \in DOMAIN url_traffic'
             /\ url_traffic'[r][1] >= url_traffic[r][1]
             /\ url_traffic'[r][2] >= url_traffic[r][2]
       /\ http_traffic' >= http_traffic
       /\ ws_traffic' >= ws_traffic]_vars

\* the part of C11 that does not depend on the amounts: a route entry is
\* never removed
C11_RoutesKept ==
    [][\A r \in DOMAIN url_traffic : r \in DOMAIN url_traffic']_vars

(***************************************************************************)
(* SpecLife: the life of the process.  main_impl spawns the serving task   *)
(* (axum::serve with shutdown_signal as its graceful-shutdown future) and  *)
(* then runs App::run on the main task; when App::run returns, main_impl   *)
(* returns, block_on returns and the runtime is dropped with every task    *)
(* still on it.  The terminal front end (mod tui) is not among the         *)
(* sources; of it the model takes only what App::run uses: `next()` yields *)
(* key events and ticks.                                                   *)
(***************************************************************************)
MaxAccepts == 2

ShutdownStore_Kept(flag) == flag

\* State::shutdown: self.shutdown.store(true, Relaxed)
ShutdownStore(flag) == TRUE

\* State::is_shutdown
IsShutdown == shutdown

AppEvents == {"ctrl_c", "key", "tick"}

InitLife ==
    /\ StateNew
    /\ shardLock = [r \in Routes |-> 0]
    /\ cpc = [t \in Callers |-> "idle"]
    /\ carg = [t \in Callers |-> NoArg]
    /\ ctmp = [t \in Callers |-> 0]
    /\ ncalls = 0
    /\ issued = [r \in Routes |-> <<0, 0>>]
    /\ cfgHost = GoodHost
    /\ layout = DefaultLayout
    /\ req = [r \in Reqs |-> IdleReq]
    /\ bridge = [b \in Bridges |-> IdleBridge]
    /\ nreads = 0
    /\ nkeys = 0
    /\ LifeNew

otherVars == <<storeVars, callerVars, httpVars, bridgeVars, tlsVars, convVars, snapVars>>

\* the operating system delivers SIGTERM or an interrupt to the process
SignalArrives ==
    /\ app # "exited"
    /\ ~sigReceived
    /\ sigReceived' = TRUE
    /\ UNCHANGED <<otherVars, shutdown, server, app, httpConns, wsConns, naccepts, cut, nshutdowns, late>>

\* App::run, lines 53-59: tui.next() yields an event and handle_event runs;
\* Ctrl+C (also its Cyrillic form) calls State::shutdown
AppEvent(evt) ==
    /\ app = "wait"
    /\ shutdown' = IF evt = "ctrl_c" THEN ShutdownStore(shutdown) ELSE shutdown
    /\ nshutdowns' = IF evt = "ctrl_c" THEN nshutdowns + 1 ELSE nshutdowns
    /\ app' = "check"
    /\ UNCHANGED <<otherVars, sigReceived, server, httpConns, wsConns, naccepts, cut, late>>

\* App::run, lines 61-63: the loop ends when the flag is set
AppCheck ==
    /\ app = "check"
    /\ app' = IF IsShutdown THEN "returning" ELSE "wait"
    /\ UNCHANGED <<otherVars, shutdown, sigReceived, server, httpConns, wsConns, naccepts, cut, nshutdowns, late>>

\* shutdown_signal: terminate() or ctrl_c() completes the select
SignalSeen ==
    /\ app # "exited"
    /\ server = "accepting"
    /\ sigReceived
    /\ server' = "draining"
    /\ UNCHANGED <<otherVars, shutdown, sigReceived, app, httpConns, wsConns, naccepts, cut, nshutdowns, late>>

\* shutdown_signal: tui_terminate finds the flag set at one of its polls
FlagSeen ==
    /\ app # "exited"
    /\ server = "accepting"
    /\ IsShutdown
    /\ server' = "draining"
    /\ UNCHANGED <<otherVars, shutdown, sigReceived, app, httpConns, wsConns, naccepts, cut, nshutdowns, late>>

\* the listener accepts a connection; kind "ws" is a connection upgraded to
\* a bridge, whose task runs apart from the connection's
Accept(kind) ==
    /\ app # "exited"
    /\ server = "accepting"
    /\ naccepts < MaxAccepts
    /\ naccepts' = naccepts + 1
    /\ IF kind = "http"
       THEN httpConns' = httpConns + 1 /\ wsConns' = wsConns
       ELSE wsConns' = wsConns + 1 /\ httpConns' = httpConns
    /\ late' = IF sigReceived \/ shutdown THEN late + 1 ELSE late
    /\ UNCHANGED <<otherVars, shutdown, sigReceived, server, app, cut, nshutdowns>>

\* an HTTP connection's work completes
HttpFinish ==
    /\ app # "exited"
    /\ httpConns > 0
    /\ httpConns' = httpConns - 1
    /\ UNCHANGED <<otherVars, shutdown, sigReceived, server, app, wsConns, naccepts, cut, nshutdowns, late>>

\* a bridge's tasks end
BridgeFinish ==
    /\ app # "exited"
    /\ wsConns > 0
    /\ wsConns' = wsConns - 1
    /\ UNCHANGED <<otherVars, shutdown, sigReceived, server, app, httpConns, naccepts, cut, nshutdowns, late>>

\* with_graceful_shutdown: serve returns once the connections have finished
Drained ==
    /\ app # "exited"
    /\ server = "draining"
    /\ httpConns = 0
    /\ server' = "stopped"
    /\ UNCHANGED <<otherVars, shutdown, sigReceived, app, httpConns, wsConns, naccepts, cut, nshutdowns, late>>

\* App::run has returned: main_impl returns Ok(()), block_on returns and the
\* runtime is dropped, which drops every task it still holds; main returns
ProcessExit ==
    /\ app = "returning"
    /\ app' = "exited"
    /\ server' = IF server \in {"accepting", "draining"} THEN "cancelled" ELSE server
    /\ cut' = httpConns + wsConns
    /\ httpConns' = 0
    /\ wsConns' = 0
    /\ UNCHANGED <<otherVars, shutdown, sigReceived, naccepts, nshutdowns, late>>

NextLife ==
    \/ SignalArrives
    \/ \E evt \in AppEvents : AppEvent(evt)
    \/ AppCheck
    \/ SignalSeen
    \/ FlagSeen
    \/ \E kind \in {"http", "ws"} : Accept(kind)
    \/ HttpFinish
    \/ BridgeFinish
    \/ Drained
    \/ ProcessExit

\* Every task on the runtime is scheduled again and again, timers fire (the
\* tick of the front end, the 100 ms poll of tui_terminate), and work in
\* progress comes to an end.  Signals, key presses and new connections are
\* the environment's and may never come.
SpecLife ==
    /\ InitLife
    /\ [][NextLife]_vars
    /\ WF_vars(AppEvent("tick"))
    /\ WF_vars(AppCheck)
    /\ WF_vars(SignalSeen)
    /\ WF_vars(FlagSeen)
    /\ WF_vars(HttpFinish)
    /\ WF_vars(BridgeFinish)
    /\ WF_vars(Drained)
    /\ WF_vars(ProcessExit)

\* C12: once a termination signal has been delivered or the flag has been
\* set, the listener stops accepting and the process exits.
C12_ShutdownEndsProcess ==
    (sigReceived \/ shutdown) ~> (server # "accepting" /\ app = "exited")

\* C13: the process does not exit while a connection or a bridge accepted
\* before shutdown was triggered is in progress: when nothing was accepted
\* after the trigger, its exit cuts nothing short.
C13_ExitWaitsForDrain == (app = "exited" /\ late = 0) => cut = 0

\* C14: the flag is false until State::shutdown is called, true after any
\* call, and no step takes it from true to false.
C14_FlagMonotone ==
    /\ [](nshutdowns = 0 => ~shutdown)
    /\ [](nshutdowns > 0 => IsShutdown)
    /\ [][shutdown => shutdown']_vars

C14_Witness == nshutdowns > 0 /\ app = "returning" /\ server = "draining"

(***************************************************************************)
(* SpecRoute: the router in front of the handler.  get_router builds one   *)
(* of two layouts; a path is a sequence of "/" and segment tokens, and a   *)
(* nested service takes its prefix and everything below it, segment-wise.  *)
(***************************************************************************)
Polyanalyst == <<"/", "polyanalyst">>
StaticPrefix == Polyanalyst \o <<"/", "static">>
HelpPrefix == Polyanalyst \o <<"/", "help">>
StaticFile == StaticPrefix \o <<"/", "x.png">>
EventsSocket == Polyanalyst \o <<"/", "eventsSocket">>

\* get_pa6_help_subrouter("/polyanalyst/help")
HelpRoutes ==
    {HelpPrefix \o <<"/", "search">>,
     HelpPrefix \o <<"/", "searchprogress">>,
     HelpPrefix \o <<"/", "context", "/", "node-view">>,
     HelpPrefix \o <<"/", "context", "/", "node-wizard">>}

\* static_paths of get_pag_router, and its "/help"
GridStaticPrefixes ==
    {<<"/", seg>> : seg \in {"fonts", "vendor", "images", "scripts", "styles", "localization"}}
GridHelpPrefix == <<"/", "help">>
GridWs == <<"/", "ws">>
GridApi == <<"/", "api">>

\* nest_service(prefix, ..) matches the prefix itself and any path below it
Under(prefix, path) ==
    \/ path = prefix
    \/ /\ Len(path) > Len(prefix)
       /\ Prefix(path, Len(prefix)) = prefix
       /\ path[Len(prefix) + 1] = "/"

\* the services a layout nests when transparent is off
NestedPrefixes(lay) ==
    IF lay.transparent THEN {}
    ELSE IF lay.pagrid THEN GridStaticPrefixes \cup {GridHelpPrefix}
    ELSE {StaticPrefix, HelpPrefix}

Router_NoNesting(lay, method, path) ==
    IF lay.pagrid
    THEN IF path = GridWs THEN (IF method = "GET" THEN "ws" ELSE "method_not_allowed")
         ELSE "handler"
    ELSE IF path = EventsSocket THEN (IF method = "GET" THEN "ws" ELSE "method_not_allowed")
         ELSE IF path \in HelpRoutes /\ method # "GET" THEN "method_not_allowed"
         ELSE "handler"

\* what the router of get_pag_router / get_pa6_router hands a request to:
\* an exact route first, then a nested service, then the fallback
Router(lay, method, path) ==
    IF lay.pagrid
    THEN IF path = GridWs THEN (IF method = "GET" THEN "ws" ELSE "method_not_allowed")
         ELSE IF path = GridApi THEN "handler"
         ELSE IF \E p \in NestedPrefixes(lay) : Under(p, path) THEN "static"
         ELSE "handler"
    ELSE IF path \in HelpRoutes
         THEN (IF method = "GET" THEN "handler" ELSE "method_not_allowed")
         ELSE IF path = EventsSocket
         THEN (IF method = "GET" THEN "ws" ELSE "method_not_allowed")
         ELSE IF \E p \in NestedPrefixes(lay) : Under(p, path) THEN "static"
         ELSE "handler"

Layouts == [pagrid : BOOLEAN, transparent : BOOLEAN]

RoutePaths == {StaticFile, PathA, EventsSocket, <<"/", "fonts", "/", "f">>}

RouteMethods == {"GET"}

InitRoute ==
    /\ StateNew
    /\ shardLock = [r \in Routes |-> 0]
    /\ cpc = [t \in Callers |-> "idle"]
    /\ carg = [t \in Callers |-> NoArg]
    /\ ctmp = [t \in Callers |-> 0]
    /\ ncalls = 0
    /\ issued = [r \in RoutePaths |-> <<0, 0>>]
    /\ cfgHost = GoodHost
    /\ layout \in Layouts
    /\ req = [r \in Reqs |-> IdleReq]
    /\ bridge = [b \in Bridges |-> IdleBridge]
    /\ nreads = 0
    /\ nkeys = 0
    /\ LifeNew

\* the router takes a request: the handler runs on it, or the nested
\* ServeDir, the upgrade route or the method check answers it
RouteRequest(r) ==
    /\ req[r].pc = "idle"
    /\ IF r = 1 THEN TRUE ELSE req[r - 1].pc # "idle"
    /\ \E method \in RouteMethods, path \in RoutePaths :
          LET service == Router(layout, method, path)
          IN  IF service = "handler"
              THEN HandlerImpl(r, method, [path |-> path, query |-> None], None,
                               [kind |-> "absent", n |-> 0])
              ELSE /\ req' = [req EXCEPT ![r] = [IdleReq EXCEPT !.pc = service,
                                                                !.path = Some(path)]]
                   /\ UNCHANGED <<url_traffic, http_traffic, issued>>
    /\ UNCHANGED <<ws_traffic, shardLock, cpc, carg, ctmp, ncalls, cfgHost, layout, bridgeVars, lifeVars, tlsVars, convVars, snapVars>>

NextRoute ==
    \/ \E r \in Reqs : RouteRequest(r)
    \/ \E r \in Reqs : Dispatch(r)
    \/ \E r \in Reqs : PollFrame(r)
    \/ \E r \in Reqs : EndOfBody(r)
    \/ \E r \in Reqs : AbortBody(r)

SpecRoute == InitRoute /\ [][NextRoute]_vars

InHandler(r) == req[r].pc \in {"dispatch", "streaming"}

\* C15: in the default layout with transparent off, a request under the
\* static prefix is answered by the local directory: no handler runs on it
\* and no step answering it changes the store, so the store has no entry
\* under the prefix.  With transparent on no request is answered locally,
\* and the store holds under the request's path exactly what its handler
\* and its body frames were to account.
C15_StaticLocalUnlessTransparent ==
    ~layout.pagrid =>
        IF ~layout.transparent
        THEN /\ \A r \in Reqs : InHandler(r) => ~Under(StaticPrefix, Unwrap(req[r].path))
             /\ \A p \in DOMAIN url_traffic : ~Under(StaticPrefix, p)
             /\ issued[StaticFile] = <<0, 0>>
        ELSE /\ \A r \in Reqs : req[r].pc # "static"
             /\ PairOf(url_traffic, StaticFile) = issued[StaticFile]

C15_Witness ==
    /\ ~layout.pagrid /\ ~layout.transparent
    /\ \E r \in Reqs : req[r].pc = "static" /\ req[r].path = Some(StaticFile)
    /\ PairOf(url_traffic, PathA)[2] > 0

C15_TransparentWitness ==
    /\ ~layout.pagrid /\ layout.transparent
    /\ PairOf(url_traffic, StaticFile)[2] > 0

(***************************************************************************)
(* SpecTls: the TLS handshakes of the two outbound clients.  Both take     *)
(* their configuration from build_client_config: the HTTP client through   *)
(* build_tls_connector, each bridge at router.rs line 115.  rustls asks    *)
(* the configured verifier about the certificate and then about the        *)
(* handshake signature, and fails the handshake when either answers Err.   *)
(***************************************************************************)
MaxHandshakes == 2

TlsClients == {"http", "ws"}

\* what a server may present: the properties of its end-entity certificate
\* and chain a verifier could object to
Certificates ==
    [expired : BOOLEAN, selfSigned : BOOLEAN, nameMatches : BOOLEAN,
     ocsp : {"none", "good", "revoked"}]

TlsVersions == {"1.2", "1.3"}

\* a verifier that checks: the answer webpki would give
verify_server_cert_Checking(cert) ==
    IF cert.expired \/ cert.selfSigned \/ ~cert.nameMatches \/ cert.ocsp = "revoked"
    THEN "Err" ELSE "Ok"

\* DummyVerifier::verify_server_cert: Ok(ServerCertVerified::assertion()),
\* whatever the certificate, intermediates, name, OCSP response and time
verify_server_cert(cert) == "Ok"

\* DummyVerifier::verify_tls12_signature
verify_tls12_signature(sigValid) == "Ok"

\* DummyVerifier::verify_tls13_signature
verify_tls13_signature(sigValid) == "Ok"

\* build_client_config: the verifier every client configuration carries
build_client_config == [verifier |-> "DummyVerifier", client_auth |-> "none"]

\* build_tls_connector (HTTP client) and router.rs line 115 (bridge)
ConfigOf(client) == build_client_config

InitTls ==
    /\ StateNew
    /\ shardLock = [r \in Routes |-> 0]
    /\ cpc = [t \in Callers |-> "idle"]
    /\ carg = [t \in Callers |-> NoArg]
    /\ ctmp = [t \in Callers |-> 0]
    /\ ncalls = 0
    /\ issued = [r \in Routes |-> <<0, 0>>]
    /\ cfgHost = GoodHost
    /\ layout = DefaultLayout
    /\ req = [r \in Reqs |-> IdleReq]
    /\ bridge = [b \in Bridges |-> IdleBridge]
    /\ nreads = 0
    /\ nkeys = 0
    /\ LifeNew

tlsRest == <<storeVars, callerVars, httpVars, bridgeVars, lifeVars, convVars, snapVars>>

\* a client opens a connection and the server sends its certificate
ServerHello(client) ==
    /\ tls.pc \in {"idle", "connected", "rejected"}
    /\ nhandshakes < MaxHandshakes
    /\ \E cert \in Certificates, version \in TlsVersions, sigValid \in BOOLEAN :
          tls' = [pc |-> "certificate", client |-> client, config |-> ConfigOf(client),
                  cert |-> cert, version |-> version, sigValid |-> sigValid]
    /\ nhandshakes' = nhandshakes + 1
    /\ UNCHANGED tlsRest

\* rustls calls verify_server_cert of the configured verifier
VerifyCertificate ==
    /\ tls.pc = "certificate"
    /\ tls' = [tls EXCEPT !.pc = IF verify_server_cert(tls.cert) = "Ok"
                                 THEN "signature" ELSE "rejected"]
    /\ UNCHANGED <<tlsRest, nhandshakes>>

\* rustls calls verify_tls12_signature or verify_tls13_signature
VerifySignature ==
    /\ tls.pc = "signature"
    /\ LET answer == IF tls.version = "1.2"
                     THEN verify_tls12_signature(tls.sigValid)
                     ELSE verify_tls13_signature(tls.sigValid)
       IN  tls' = [tls EXCEPT !.pc = IF answer = "Ok" THEN "connected" ELSE "rejected"]
    /\ UNCHANGED <<tlsRest, nhandshakes>>

NextTls ==
    \/ \E client \in TlsClients : ServerHello(client)
    \/ VerifyCertificate
    \/ VerifySignature

SpecTls == InitTls /\ [][NextTls]_vars

\* C16: no handshake of either client is rejected over what the server
\* presented: every client configuration carries the accepting verifier,
\* and a handshake never reaches "rejected", whatever the certificate, the
\* OCSP response and the signature.
C16_EveryCertificateAccepted ==
    tls.pc # "idle"
      => /\ tls.config.verifier = "DummyVerifier"
         /\ tls.pc # "rejected"

C16_Witness ==
    /\ tls.pc = "connected"
    /\ tls.client = "ws"
    /\ tls.cert.expired /\ tls.cert.selfSigned /\ ~tls.cert.nameMatches
    /\ tls.cert.ocsp = "revoked"
    /\ ~tls.sigValid

(***************************************************************************)
(* SpecRaw: the bridge with an upstream reader that may also yield         *)
(* Message::Frame, the variant tungstein_to_axum has no counterpart for.   *)
(* tungstenite documents that reading does not produce it; the type        *)
(* admits it, and this is what the spawned task does with it.              *)
(***************************************************************************)
RawMessages == {Msg("frame", <<"f">>)}

\* the spawned task reads a raw frame
URawRead(b) == UReadFrom(b, RawMessages)

NextRaw ==
    \/ NextBridge
    \/ \E b \in Bridges : URawRead(b)

SpecRaw == InitBridge /\ [][NextRaw]_vars

\* the frames of a log of upstream messages that have a counterpart, converted
RECURSIVE ForwardableU(_)
ForwardableU(log) ==
    IF log = <<>> THEN <<>>
    ELSE (IF tungstein_to_axum(Head(log)) = None THEN <<>>
          ELSE <<Unwrap(tungstein_to_axum(Head(log)))>>) \o ForwardableU(Tail(log))

\* the frames of a log of client messages, converted
ForwardableC(log) == [i \in 1..Len(log) |-> axum_to_tungstein(log[i])]

\* a is b with some of its elements left out
RECURSIVE IsSubseq(_, _)
IsSubseq(a, b) ==
    IF a = <<>> THEN TRUE
    ELSE IF b = <<>> THEN FALSE
    ELSE IF Head(a) = Head(b) THEN IsSubseq(Tail(a), Tail(b))
    ELSE IsSubseq(a, Tail(b))

\* C17: in each direction of each bridge the frames written are, in order,
\* frames that were read (converted): a subsequence of them, and as long
\* as no send has failed exactly the convertible ones, each once, the
\* frame in hand excepted.
C17_ForwardedInOrder ==
    \A b \in Bridges :
        /\ IsSubseq(bridge[b].u.wlog, ForwardableU(bridge[b].u.rlog))
        /\ IsSubseq(bridge[b].c.wlog, ForwardableC(bridge[b].c.rlog))
        /\ bridge[b].u.err # "send"
             => bridge[b].u.wlog \o bridge[b].u.msg = ForwardableU(bridge[b].u.rlog)
        /\ bridge[b].c.err # "send"
             => bridge[b].c.wlog \o bridge[b].c.msg = ForwardableC(bridge[b].c.rlog)

\* the upstream->client direction has forwarded a frame, skipped a raw one
\* and forwarded the next; the other direction has forwarded one as well
C17_Witness ==
    \E b \in Bridges :
        /\ Len(bridge[b].u.rlog) = 3
        /\ bridge[b].u.rlog[2].kind = "frame"
        /\ Len(bridge[b].u.wlog) = 2
        /\ bridge[b].u.wlog[1] # bridge[b].u.wlog[2]

(***************************************************************************)
(* SpecPair: two bridges side by side, a bridge and one unrelated to it.   *)
(***************************************************************************)
PairBridges == {1, 2}

InitPair ==
    /\ StateNew
    /\ shardLock = [r \in Routes |-> 0]
    /\ cpc = [t \in Callers |-> "idle"]
    /\ carg = [t \in Callers |-> NoArg]
    /\ ctmp = [t \in Callers |-> 0]
    /\ ncalls = 0
    /\ issued = [r \in Routes |-> <<0, 0>>]
    /\ cfgHost = GoodHost
    /\ layout = DefaultLayout
    /\ req = [r \in Reqs |-> IdleReq]
    /\ bridge = [b \in PairBridges |-> IdleBridge]
    /\ nreads = 0
    /\ nkeys = 0
    /\ LifeNew

NextPair ==
    \/ \E b \in PairBridges : BridgeAccept(b)
    \/ \E b \in PairBridges : Connect(b)
    \/ \E b \in PairBridges : URead(b)
    \/ \E b \in PairBridges : USend(b)
    \/ \E b \in PairBridges : CRead(b)
    \/ \E b \in PairBridges : CSend(b)

SpecPair == InitPair /\ [][NextPair]_vars

\* C18: the step that ends the upstream->client direction of a bridge
\* leaves the client->upstream direction of that bridge, its handler and
\* its inbound socket as they were, and leaves every other bridge as it
\* was; the client->upstream direction ends only by its own read or send.
C18_DirectionsIndependent ==
    [][\A b \in PairBridges :
          /\ (bridge[b].u.pc # "done" /\ bridge'[b].u.pc = "done")
               => /\ bridge'[b].c = bridge[b].c
                  /\ bridge'[b].pc = bridge[b].pc
                  /\ bridge'[b].clientSock = bridge[b].clientSock
                  /\ \A o \in PairBridges \ {b} : bridge'[o] = bridge[o]
          /\ (bridge[b].c.pc # "done" /\ bridge'[b].c.pc = "done")
               => /\ bridge[b].c.pc \in {"read", "send"}
                  /\ bridge'[b].u = bridge[b].u
                  /\ \A o \in PairBridges \ {b} : bridge'[o] = bridge[o]]_vars

\* one bridge's upstream side has failed; its client->upstream loop still
\* holds a frame it read, and the other bridge has forwarded in both directions
C18_Witness ==
    \E b \in PairBridges : \E o \in PairBridges \ {b} :
        /\ bridge[b].u.pc = "done" /\ bridge[b].u.err = "read"
        /\ bridge[b].c.pc = "send"
        /\ bridge[o].u.pc = "send" /\ bridge[o].c.nfwd > 0

(***************************************************************************)
(* SpecConv: one relay loop with healthy sockets, fed frames of every kind *)
(* with every shape of payload and close frame.                            *)
(***************************************************************************)
MaxConvReads == 2

Payloads == {<<>>, <<"a">>, <<"a", "b">>}
CloseFrames == {None, Some([code |-> 1000, reason |-> <<"r">>]),
                Some([code |-> 1011, reason |-> <<>>])}

\* the variants of axum::extract::ws::Message
AxumFrames ==
    {Msg(k, d) : k \in {"text", "binary", "ping", "pong"}, d \in Payloads}
        \cup {CloseMsg(c) : c \in CloseFrames}

\* the variants of tungstenite::Message: the same and the raw frame
TungsteniteFrames == AxumFrames \cup {Msg("frame", d) : d \in Payloads}

ConvDirections == {"u", "c"}

InitConv ==
    /\ StateNew
    /\ shardLock = [r \in Routes |-> 0]
    /\ cpc = [t \in Callers |-> "idle"]
    /\ carg = [t \in Callers |-> NoArg]
    /\ ctmp = [t \in Callers |-> 0]
    /\ ncalls = 0
    /\ issued = [r \in Routes |-> <<0, 0>>]
    /\ cfgHost = GoodHost
    /\ layout = DefaultLayout
    /\ req = [r \in Reqs |-> IdleReq]
    /\ bridge = [b \in Bridges |-> IdleBridge]
    /\ nreads = 0
    /\ nkeys = 0
    /\ LifeNew

convRest == <<url_traffic, http_traffic, callerVars, httpVars, bridgeVars, lifeVars, tlsVars, snapVars>>

\* a direction's loop begins: "u" is the spawned task, "c" handler_impl's loop
ConvStart(d) ==
    /\ conv.pc = "none"
    /\ conv' = [conv EXCEPT !.dir = d, !.pc = "read"]
    /\ UNCHANGED <<ws_traffic, convRest>>

\* the spawned task reads a message, counts it and converts it
ConvReadUpstream(m) ==
    /\ conv.dir = "u" /\ conv.pc = "read"
    /\ Len(conv.rlog) < MaxConvReads
    /\ UpdateWsTraffic(UpstreamSize(m))
    /\ conv' = [conv EXCEPT !.rlog = Append(@, m),
                            !.msg = tungstein_to_axum(m),
                            !.pc = UAfterConversion(tungstein_to_axum(m))]
    /\ UNCHANGED convRest

\* handler_impl's loop reads a message, counts it and converts it
ConvReadClient(m) ==
    /\ conv.dir = "c" /\ conv.pc = "read"
    /\ Len(conv.rlog) < MaxConvReads
    /\ UpdateWsTraffic(ClientSize(m))
    /\ conv' = [conv EXCEPT !.rlog = Append(@, m),
                            !.msg = Some(axum_to_tungstein(m)),
                            !.pc = "send"]
    /\ UNCHANGED convRest

\* the converted message is sent to the other socket
ConvSend ==
    /\ conv.pc = "send"
    /\ conv' = [conv EXCEPT !.wlog = SinkSend(@, Unwrap(conv.msg)),
                            !.msg = None, !.pc = "read"]
    /\ UNCHANGED <<ws_traffic, convRest>>

NextConv ==
    \/ \E d \in ConvDirections : ConvStart(d)
    \/ \E m \in TungsteniteFrames : ConvReadUpstream(m)
    \/ \E m \in AxumFrames : ConvReadClient(m)
    \/ ConvSend

SpecConv == InitConv /\ [][NextConv]_vars

\* what the claim expects on the other side for one frame read
ExpectedForward(m) ==
    IF m.kind = "frame" THEN <<>>
    ELSE IF m.kind = "close" THEN <<[kind |-> "close", data |-> <<>>, close |-> <<>>]>>
    ELSE <<[kind |-> m.kind, data |-> m.data, close |-> <<>>]>>

RECURSIVE ExpectedLog(_)
ExpectedLog(log) ==
    IF log = <<>> THEN <<>> ELSE ExpectedForward(Head(log)) \o ExpectedLog(Tail(log))

\* C19: in both directions a text, binary, ping or pong frame goes out with
\* its kind and payload, a close frame goes out as a close frame without
\* code and reason, and a raw frame goes out as nothing: the loop stays
\* at its read, without error, and forwards what it reads next.
C19_FrameConversion ==
    /\ conv.pc \in {"none", "read", "send"}
    /\ conv.wlog \o conv.msg = ExpectedLog(conv.rlog)
    /\ conv.pc = "send" <=> conv.msg # None
    /\ (conv.pc = "read" /\ conv.rlog # <<>> /\ conv.rlog[Len(conv.rlog)].kind = "frame")
          => conv.wlog = ExpectedLog(SubSeq(conv.rlog, 1, Len(conv.rlog) - 1))

\* the upstream sent a raw frame and then a close frame with code and
\* reason: only a bare close frame has been written to the client
C19_Witness ==
    /\ conv.dir = "u"
    /\ Len(conv.rlog) = 2
    /\ conv.rlog[1].kind = "frame"
    /\ conv.rlog[2].kind = "close" /\ conv.rlog[2].close # None
    /\ conv.wlog = <<CloseMsg(None)>>

\* the client sent a ping and then a text frame: both are at the upstream
C19_ClientWitness ==
    /\ conv.dir = "c"
    /\ Len(conv.wlog) = 2
    /\ conv.wlog[1] = Msg("ping", <<"a">>)
    /\ conv.wlog[2] = Msg("text", <<"a", "b">>)

\* the text of the handshake's target as the claim gives it
ExpectedWsTarget(host, target) ==
    Wss \o host \o target.path
        \o (IF target.query = None THEN <<>> ELSE <<"?">> \o Unwrap(target.query))

\* C20 (target and Host): the outbound handshake targets
\* wss://{upstreamHost}{path}{?query}, and Host, if present inbound, has
\* the value upstreamHost.
C20_TargetAndHost ==
    \A b \in Bridges :
        bridge[b].pc = "connecting"
          => LET inbound == Unwrap(bridge[b].inbound)
                 outbound == Unwrap(bridge[b].outbound)
             IN  /\ outbound.uri = Unwrap(UriTryFrom(ExpectedWsTarget(cfgHost, inbound.uri)))
                 /\ ContainsKey(inbound.headers, "host")
                      => outbound.headers["host"] = <<cfgHost>>

\* C20: every value the inbound request has under a header name other than
\* Host and Sec-WebSocket-Key is in the outbound handshake under that name.
C20_EveryHeaderValueCarried ==
    \A b \in Bridges :
        bridge[b].pc = "connecting"
          => LET inboundHeaders == Unwrap(bridge[b].inbound).headers
                 headers == Unwrap(bridge[b].outbound).headers
             IN  \A name \in DOMAIN inboundHeaders \ {"host", KeyHeaderName} :
                    /\ ContainsKey(headers, name)
                    /\ \A i \in 1..Len(inboundHeaders[name]) :
                          \E j \in 1..Len(headers[name]) :
                              headers[name][j] = inboundHeaders[name][i]

\* what the code does instead: each name arrives with its last value alone
C20_LastValueCarried ==
    \A b \in Bridges :
        bridge[b].pc = "connecting"
          => LET inboundHeaders == Unwrap(bridge[b].inbound).headers
                 headers == Unwrap(bridge[b].outbound).headers
             IN  \A name \in DOMAIN inboundHeaders \ {"host", KeyHeaderName} :
                    /\ ContainsKey(headers, name)
                    /\ headers[name] = <<inboundHeaders[name][Len(inboundHeaders[name])]>>

(***************************************************************************)
(* SpecSnap: App::ui draws a frame while update_sent / update_received     *)
(* run.  `state.get_info().iter()` goes through the shards of the map: it  *)
(* takes the read lock of a shard, yields the entries of the shard (each   *)
(* reference keeps the read lock), and lets the lock go when it moves on.  *)
(* The loop body reads r.0 and r.1 (app.rs line 122).  After the loop      *)
(* render_info reads the aggregate (total_traffic, app.rs line 104).       *)
(* The order of the shards depends on the hashes: any order is taken.      *)
(* As in SpecStore every key has its own shard lock.                       *)
(***************************************************************************)
MaxDraws == 1

\* the holder of a read lock, next to the callers holding write locks
Reader == NumCallers + 1

ReadLockFree_Unlocked(url) == TRUE

\* the read lock of the key's shard can be taken: no writer holds the shard
ReadLockFree(url) == shardLock[url] = 0

snapRest == <<storeVars, cpc, carg, ctmp, ncalls, issued, httpVars, bridgeVars, lifeVars, tlsVars, convVars>>

\* tui.draw(|frame| self.ui(frame)): the iteration begins
SnapBegin ==
    /\ snap.pc = "idle"
    /\ snap.draws < MaxDraws
    /\ snap' = [snap EXCEPT !.pc = "next", !.todo = Routes, !.pairs = <<>>,
                            !.total = 0, !.draws = @ + 1]
    /\ UNCHANGED <<shardLock, snapRest>>

\* the iterator takes the read lock of the next shard
SnapLock(r) ==
    /\ snap.pc = "next"
    /\ r \in snap.todo
    /\ ReadLockFree(r)
    /\ shardLock' = [shardLock EXCEPT ![r] = Reader]
    /\ snap' = [snap EXCEPT !.held = Some(r),
                            !.pc = IF r \in DOMAIN url_traffic THEN "read0" ELSE "unlock"]
    /\ UNCHANGED snapRest

\* entries.push((.., (r.0, r.1), ..)): the read of r.0
SnapRead0 ==
    /\ snap.pc = "read0"
    /\ snap' = [snap EXCEPT !.cur[1] = url_traffic[Unwrap(snap.held)][1], !.pc = "read1"]
    /\ UNCHANGED <<shardLock, snapRest>>

\* the read of r.1, and the push
SnapRead1 ==
    /\ snap.pc = "read1"
    /\ LET r == Unwrap(snap.held)
           pair == <<snap.cur[1], url_traffic[r][2]>>
       IN  snap' = [snap EXCEPT !.cur = <<0, 0>>,
                                !.pairs = [k \in DOMAIN snap.pairs \cup {r} |->
                                              IF k = r THEN pair ELSE snap.pairs[k]],
                                !.pc = "unlock"]
    /\ UNCHANGED <<shardLock, snapRest>>

ReleaseRead_Kept(lock, r) == lock

\* the read guard is dropped: the shard's lock is free again
ReleaseRead(lock, r) == [lock EXCEPT ![r] = 0]

\* the reference is dropped and the iterator leaves the shard
SnapUnlock ==
    /\ snap.pc = "unlock"
    /\ LET r == Unwrap(snap.held)
       IN  /\ shardLock' = ReleaseRead(shardLock, r)
           /\ snap' = [snap EXCEPT !.held = None, !.todo = @ \ {r},
                                   !.pc = IF snap.todo = {r} THEN "total" ELSE "next"]
    /\ UNCHANGED snapRest

\* render_info: state.total_traffic()
SnapTotal ==
    /\ snap.pc = "total"
    /\ snap' = [snap EXCEPT !.total = http_traffic, !.pc = "idle"]
    /\ UNCHANGED <<shardLock, snapRest>>

\* the tasks that update the store while the frame is drawn
SnapWriters == {1, 2}
MaxSnapCalls == 2

\* a task calls update_sent(url, 1) or update_received(url, 1)
SnapCall(t) ==
    /\ cpc[t] = "idle"
    /\ ncalls < MaxSnapCalls
    /\ \E op \in {"sent", "received"}, url \in Routes :
          /\ carg' = [carg EXCEPT ![t] = [op |-> op, url |-> url, count |-> 1]]
          /\ issued' = [issued EXCEPT ![url][FieldOf(op)] = @ + 1]
    /\ ncalls' = ncalls + 1
    /\ cpc' = [cpc EXCEPT ![t] = "entry"]
    /\ UNCHANGED <<storeVars, shardLock, ctmp, httpVars, bridgeVars, lifeVars, tlsVars, convVars, snapVars>>

NextSnap ==
    \/ \E t \in SnapWriters : SnapCall(t)
    \/ \E t \in SnapWriters : Entry(t)
    \/ \E t \in SnapWriters : LoadField(t)
    \/ \E t \in SnapWriters : StoreField(t)
    \/ \E t \in SnapWriters : FetchAdd(t)
    \/ \E t \in SnapWriters : DropEntry(t)
    \/ SnapBegin
    \/ \E r \in Routes : SnapLock(r)
    \/ SnapRead0
    \/ SnapRead1
    \/ SnapUnlock
    \/ SnapTotal

\* every task that can run does run: the callers on the runtime's worker
\* threads, the drawing on the thread of App::run
SpecSnap ==
    /\ InitStore
    /\ [][NextSnap]_vars
    /\ \A t \in SnapWriters :
          WF_vars(Entry(t)) /\ WF_vars(LoadField(t)) /\ WF_vars(StoreField(t))
            /\ WF_vars(FetchAdd(t)) /\ WF_vars(DropEntry(t))
    /\ WF_vars(\E r \in Routes : SnapLock(r))
    /\ WF_vars(SnapRead0) /\ WF_vars(SnapRead1) /\ WF_vars(SnapUnlock) /\ WF_vars(SnapTotal)

\* the sum of sent + received over the pairs the frame has collected
SnapSum ==
    SumOver([r \in DOMAIN snap.pairs |-> snap.pairs[r][1] + snap.pairs[r][2]],
            DOMAIN snap.pairs)

\* C21: a snapshot running beside update_sent / update_received calls never
\* deadlocks (whoever holds a shard's lock is at a step that needs no
\* lock, and the reader holds one shard at most), blocks no writer forever
\* (a call waiting for its shard returns, and the snapshot ends), and each
\* pair it collects is the pair the route holds at the instant it is
\* collected; routes are collected at different instants.
C21_SnapshotConsistent ==
    /\ [](\A r \in Routes :
            /\ shardLock[r] = Reader
                 => snap.pc \in {"read0", "read1", "unlock"} /\ snap.held = Some(r)
            /\ shardLock[r] \in SnapWriters
                 => /\ cpc[shardLock[r]] \in {"load", "store", "fetch_add", "drop"}
                    /\ carg[shardLock[r]].url = r)
    /\ [][\A r \in DOMAIN snap'.pairs :
            (r \notin DOMAIN snap.pairs \/ snap'.pairs[r] # snap.pairs[r])
               => snap'.pairs[r] = url_traffic[r] /\ url_traffic'[r] = url_traffic[r]]_vars
    /\ \A t \in SnapWriters : (cpc[t] = "entry") ~> (cpc[t] = "idle")
    /\ (snap.pc = "next") ~> (snap.pc = "idle")

\* the reader holds a route's shard between its two reads, the route has
\* traffic recorded, and a call for that route waits for the shard
C21_Witness ==
    /\ snap.pc = "read1"
    /\ url_traffic[Unwrap(snap.held)] # <<0, 0>>
    /\ \E t \in SnapWriters :
          /\ cpc[t] = "entry" /\ carg[t].url = Unwrap(snap.held)
          /\ ~ShardLockFree(carg[t].url)

\* C22: the aggregate read after the snapshot is never smaller than the
\* sum of sent + received over the snapshot; while the snapshot is being
\* taken the aggregate is already at least the sum collected so far.
C22_AggregateCoversSnapshot ==
    /\ http_traffic >= SnapSum
    /\ (snap.pc = "idle" /\ snap.draws > 0) => snap.total >= SnapSum

\* a frame is drawn: the snapshot holds one update, the aggregate holds a
\* second one that arrived after its route was read
C22_Witness ==
    /\ snap.pc = "idle" /\ snap.draws > 0
    /\ SnapSum > 0
    /\ snap.total > SnapSum

\* C23: a request that ends in a 500 leaves the store unchanged: as long
\* as every request handled so far has ended in a 500, no route has an
\* entry and the HTTP aggregate is zero.
C23_FailedRequestLeavesStore ==
    (\A r \in Reqs : req[r].pc \in {"idle", "failed"})
        => url_traffic = <<>> /\ http_traffic = 0

\* C23 (failures before the dispatch): a request that failed at the URI
\* construction or at the Host rewrite has changed nothing.
C23_EarlyFailureLeavesStore ==
    (\A r \in Reqs : req[r].pc = "idle" \/ (req[r].pc = "failed" /\ req[r].attempts = 0))
        => url_traffic = <<>> /\ http_traffic = 0

\* a request has failed before its dispatch
C23_EarlyFailureWitness ==
    \E r \in Reqs : req[r].pc = "failed" /\ req[r].attempts = 0
                      /\ Unwrap(req[r].response).status = 500

(***************************************************************************)
(* SpecBridgeFair: the bridges with fair tasks.  A task that can take its  *)
(* step takes it: the connect, the spawned task's read of a message the    *)
(* upstream has sent, and both sends.  What the peers do is left to them:  *)
(* nothing makes the upstream end its stream or the client go away.  A     *)
(* task at its read with no message to read is the code suspended at       *)
(* `pa_ws_reader.next().await` on an upstream that is open and silent.     *)
(***************************************************************************)
SpecBridgeFair ==
    /\ InitBridge
    /\ [][NextBridge]_vars
    /\ \A b \in Bridges :
          /\ WF_vars(Connect(b))
          /\ WF_vars(UReadFrom(b, UpstreamMessages))
          /\ WF_vars(USend(b))
          /\ WF_vars(CSend(b))

\* C24: once the inbound client is gone and the client->upstream loop has
\* ended on it, the spawned upstream->client task eventually ends and the
\* upstream connection is released.
C24_BridgeReleasedAfterClientGone ==
    \A b \in Bridges :
        (bridge[b].clientSock = "gone" /\ bridge[b].c.pc = "done"
            /\ bridge[b].c.err \in {"read", "none"})
          ~> (bridge[b].u.pc = "done" /\ bridge[b].upSock # "open")

\* C24 (what ends the task): with the client gone, the spawned task ends
\* by the upstream's end of stream or read error and by nothing else; a
\* failed send to the client leaves it at its next read.
C24_OnlyUpstreamEndsTask ==
    [][\A b \in Bridges :
          (bridge[b].clientSock = "gone" /\ bridge[b].u.pc # "done" /\ bridge'[b].u.pc = "done")
             => /\ bridge[b].u.pc = "read"
                /\ bridge'[b] = UpstreamEnded(bridge[b], bridge'[b].u.err)]_vars

====
